---- MODULE Spec2Model ----
(***************************************************************************)
(* A model of camelcalc: the Camel Up race engine (camelup.py), its        *)
(* per-spot doubly linked camel stacks (linkedlist.py) and the leg-bet     *)
(* outcome enumerator (camelcalc.py).                                      *)
(***************************************************************************)
EXTENDS Integers, Sequences, FiniteSets, TLC

VARIABLES
    teams,                  \* Game.teams: TeamName value -> Team
    active_team,            \* Game.active_team
    die_remaining,          \* Game.die_remaining
    camels,                 \* Game.camels: Color -> Camel (its pos)
    nodes,                  \* the Node of each camel: prev / next
    spots,                  \* Game.spots: index -> head, tail, movement_card
    leg_bet_cards,          \* Game.leg_bet_cards: Color -> list of max_payoff
    overall_winner_cards,   \* Game.overall_winner_cards
    overall_loser_cards,    \* Game.overall_loser_cards
    playing,                \* Game.playing
    winners,                \* Game.winners: <<>> is None, <<S>> is the set S
    finishes,               \* how many times finish_game has run
    settled,                \* team -> the coins its overall bets brought it
    card_coins,             \* team -> the coins its movement cards brought it
    ret,                    \* the last call: its name, arguments and result
    calls,                  \* how many calls of each kind were made so far
    limits                  \* the calls and inputs this run is explored with

vars == <<teams, active_team, die_remaining, camels, nodes, spots,
          leg_bet_cards, overall_winner_cards, overall_loser_cards,
          playing, winners, finishes, settled, card_coins, ret, calls, limits>>

----------------------------------------------------------------------------
(* Program constants *)

BOARD_SPOTS == 15

MinTeams == 2

TeamNames == 8

Colors == <<"blue", "green", "orange", "yellow", "white">>

Color == {Colors[i] : i \in 1..Len(Colors)}

None == "None"

NoCard == <<>>

MaxValues == <<5, 3, 2>>

OverallPayoffs == <<8, 5, 3, 2, 1>>

(* Bounds of the exploration *)

MaxDepth == 4           \* nested move_camel calls before the stack gives out

MaxTeams == 2           \* Spec: number_of_teams is drawn from MinTeams..MaxTeams

MaxRolls == 5           \* Spec: roll_dice calls per run

MaxShort == 1           \* Spec: pips by which the rolls of a run fall short of 3

MaxOther == 1           \* Spec: calls per run that are not roll_dice

MaxCalcDepth == 9       \* nested generate_outcomes calls before the stack gives out

MaxDice == 2            \* SpecCalc: dice left when calculate_best_leg_bet is called

MaxCalcRolls == 4       \* SpecCalc: roll_dice calls per run

MaxCalcBets == 6        \* SpecCalc: bet_on_leg calls per run

SettleTeams == 6        \* SpecSettle: teams of the runs in which every team bets

MaxOverall == 7         \* SpecSettle: make_overall_bet calls per run

MaxBetRolls == 1        \* SpecBets: roll_dice calls per run

MaxBets == 4            \* SpecBets: bet_on_leg calls per run

MaxBetOther == 6        \* SpecBets: calls per run that are not roll_dice

MaxAfter == 2           \* SpecEngine: roll_dice calls after the first leg

MaxLegBets == 5         \* SpecLeg: calls per run that are not roll_dice

MaxOverallBets == 5     \* SpecOverall: successful make_overall_bet calls per run

CardTeams == 3          \* SpecCards: teams, and place_movement_card calls per run

MaxCardRolls == 2       \* SpecCards: roll_dice calls per run

MaxTurnRolls == 9       \* SpecTurns: roll_dice calls per run

----------------------------------------------------------------------------
(* linkedlist.py: the nodes are the camels' own, one per camel *)

SetPrev(g, n, v) == [g EXCEPT !.nodes[n].prev = v]

SetNext(g, n, v) == [g EXCEPT !.nodes[n].next = v]

(* remove_chain that leaves head and tail alone when the node is the head *)
remove_chain_keeps_head(g, s, node) ==
    IF g.nodes[node].prev = None
    THEN g
    ELSE LET p == g.nodes[node].prev
         IN  SetPrev(SetNext([g EXCEPT !.spots[s].tail = p], p, None), node, None)

remove_chain(g, s, node) ==
    IF g.nodes[node].prev = None
    THEN [g EXCEPT !.spots[s].head = None, !.spots[s].tail = None]
    ELSE LET p == g.nodes[node].prev
         IN  SetPrev(SetNext([g EXCEPT !.spots[s].tail = p], p, None), node, None)

insert_chain_tail(g, s, node, tail) ==
    IF g.spots[s].tail = None
    THEN [g EXCEPT !.spots[s].head = node, !.spots[s].tail = tail]
    ELSE LET t == g.spots[s].tail
         IN  [SetPrev(SetNext(g, t, node), node, t) EXCEPT !.spots[s].tail = tail]

(* insert_chain_head that puts the chain on top, as a forward move does *)
insert_chain_head_on_top(g, s, node, tail) == insert_chain_tail(g, s, node, tail)

insert_chain_head(g, s, node, tail) ==
    IF g.spots[s].head = None
    THEN [g EXCEPT !.spots[s].head = node, !.spots[s].tail = tail]
    ELSE LET h == g.spots[s].head
         IN  [SetNext(SetPrev(g, h, tail), tail, h) EXCEPT !.spots[s].head = node]

insert_single_head(g, s, node) ==
    IF g.spots[s].head = None
    THEN [g EXCEPT !.spots[s].head = node, !.spots[s].tail = node]
    ELSE LET h == g.spots[s].head
         IN  [SetPrev(SetNext(g, node, h), h, node) EXCEPT !.spots[s].head = node]

----------------------------------------------------------------------------
(* camelup.py *)

(* get_payoff that pays nothing for the second place *)
get_payoff_first_only(card, place) ==
    IF place = 1 THEN card.max_payoff
    ELSE IF place = 2 THEN 0
    ELSE -1

get_payoff(card, place) ==
    IF place = 1 THEN card.max_payoff
    ELSE IF place = 2 THEN 1
    ELSE -1

(* generate_initial_leg_bet_cards with a second card of max payoff 2 *)
generate_initial_leg_bet_cards_of_four == [c \in Color |-> MaxValues \o <<2>>]

generate_initial_leg_bet_cards == [c \in Color |-> MaxValues]

NewTeam ==
    [coins |-> 3, leg_bet_cards |-> {}, placed_movement_card |-> FALSE,
     overall_bets_made |-> {}]

RECURSIVE PlaceCamels(_, _, _)
PlaceCamels(g, rolls, i) ==
    IF i > Len(Colors) THEN g
    ELSE LET c == Colors[i]
             roll == rolls[c] - 1
             g1 == [g EXCEPT !.camels[c] = [pos |-> roll]]
         IN  PlaceCamels(insert_single_head(g1, roll, c), rolls, i + 1)

generate_initial_board(g, rolls) == PlaceCamels(g, rolls, 1)

NewGame(number_of_teams, rolls) ==
    generate_initial_board(
        [teams |-> [t \in 0..(number_of_teams - 1) |-> NewTeam],
         active_team |-> 0,
         die_remaining |-> Color,
         leg_bet_cards |-> generate_initial_leg_bet_cards,
         camels |-> [c \in Color |-> [pos |-> 0]],
         nodes |-> [c \in Color |-> [prev |-> None, next |-> None]],
         spots |-> [i \in 0..BOARD_SPOTS |->
                       [head |-> None, tail |-> None, movement_card |-> NoCard]],
         overall_winner_cards |-> <<>>,
         overall_loser_cards |-> <<>>,
         playing |-> TRUE,
         winners |-> <<>>,
         finishes |-> 0,
         settled |-> [t \in 0..(number_of_teams - 1) |-> 0],
         card_coins |-> [t \in 0..(number_of_teams - 1) |-> 0],
         exc |-> None],
        rolls)

(* get_positions: spots from 15 down, each stack from its tail along prev. *)
(* A negative list index counts from the end, below -16 it is an error.    *)
(* WalkStack that follows next, not prev *)
RECURSIVE WalkStackNext(_, _, _, _)
WalkStackNext(g, curr, place, results) ==
    IF curr = None THEN [place |-> place, results |-> results]
    ELSE WalkStackNext(g, g.nodes[curr].next, place + 1, (curr :> place) @@ results)

RECURSIVE WalkStack(_, _, _, _)
WalkStack(g, curr, place, results) ==
    IF curr = None THEN [place |-> place, results |-> results]
    ELSE WalkStack(g, g.nodes[curr].prev, place + 1, (curr :> place) @@ results)

RECURSIVE WalkSpots(_, _, _, _)
WalkSpots(g, index, place, results) ==
    IF place >= 6 \/ index < -(BOARD_SPOTS + 1) THEN results
    ELSE LET i == IF index < 0 THEN index + BOARD_SPOTS + 1 ELSE index
             r == WalkStack(g, g.spots[i].tail, place, results)
         IN  WalkSpots(g, index - 1, r.place, r.results)

get_positions(g) == WalkSpots(g, 15, 1, <<>>)

RECURSIVE LegPayoff(_, _)
LegPayoff(cards, positions) ==
    IF cards = {} THEN 0
    ELSE LET card == CHOOSE x \in cards : TRUE
         IN  get_payoff(card, positions[card.color])
                 + LegPayoff(cards \ {card}, positions)

(* finish_leg that leaves the movement cards on the board *)
finish_leg_keeps_cards(g) ==
    LET positions == get_positions(g)
    IN  [g EXCEPT
            !.die_remaining = Color,
            !.teams = [t \in DOMAIN g.teams |->
                          [g.teams[t] EXCEPT
                              !.coins = @ + LegPayoff(g.teams[t].leg_bet_cards, positions),
                              !.leg_bet_cards = {},
                              !.placed_movement_card = FALSE]],
            !.leg_bet_cards = generate_initial_leg_bet_cards]

(* finish_leg that also marks the game as finished *)
finish_leg_ends_game(g) ==
    LET positions == get_positions(g)
    IN  [g EXCEPT
            !.die_remaining = Color,
            !.teams = [t \in DOMAIN g.teams |->
                          [g.teams[t] EXCEPT
                              !.coins = @ + LegPayoff(g.teams[t].leg_bet_cards, positions),
                              !.leg_bet_cards = {},
                              !.placed_movement_card = FALSE]],
            !.leg_bet_cards = generate_initial_leg_bet_cards,
            !.spots = [i \in DOMAIN g.spots |->
                          [g.spots[i] EXCEPT !.movement_card = NoCard]],
            !.playing = FALSE]

finish_leg(g) ==
    LET positions == get_positions(g)
    IN  [g EXCEPT
            !.die_remaining = Color,
            !.teams = [t \in DOMAIN g.teams |->
                          [g.teams[t] EXCEPT
                              !.coins = @ + LegPayoff(g.teams[t].leg_bet_cards, positions),
                              !.leg_bet_cards = {},
                              !.placed_movement_card = FALSE]],
            !.leg_bet_cards = generate_initial_leg_bet_cards,
            !.spots = [i \in DOMAIN g.spots |->
                          [g.spots[i] EXCEPT !.movement_card = NoCard]]]

(* The settlement loop of finish_game over one list of overall bet cards *)
RECURSIVE SettleCards(_, _, _, _, _, _)
SettleCards(tms, cards, positions, place, i, index) ==
    IF i > Len(cards) THEN tms
    ELSE LET card == cards[i]
         IN  IF positions[card.color] = place
             THEN IF index < Len(OverallPayoffs)
                  THEN SettleCards(
                           [tms EXCEPT ![card.team].coins = @ + OverallPayoffs[index + 1]],
                           cards, positions, place, i + 1, index + 1)
                  ELSE SettleCards(tms, cards, positions, place, i + 1, index)
             ELSE SettleCards([tms EXCEPT ![card.team].coins = @ - 1],
                              cards, positions, place, i + 1, index)

(* MaxCoins that takes the least coin total *)
MaxCoins_least(tms) ==
    CHOOSE m \in {tms[t].coins : t \in DOMAIN tms} :
        \A t \in DOMAIN tms : tms[t].coins >= m

MaxCoins(tms) ==
    CHOOSE m \in {tms[t].coins : t \in DOMAIN tms} :
        \A t \in DOMAIN tms : tms[t].coins <= m

finish_game(g) ==
    LET g1 == finish_leg(g)
        positions == get_positions(g1)
        t1 == SettleCards(g1.teams, g1.overall_winner_cards, positions, 1, 1, 0)
        t2 == SettleCards(t1, g1.overall_loser_cards, positions, 5, 1, 0)
        max_coins == MaxCoins(t2)
    IN  [g1 EXCEPT
            !.teams = t2,
            !.winners = <<{t \in DOMAIN t2 : t2[t].coins = max_coins}>>,
            !.playing = FALSE,
            !.finishes = @ + 1,
            !.settled = [t \in DOMAIN t2 |-> @[t] + t2[t].coins - g1.teams[t].coins]]

(* update_camel_positions that stops at the first camel *)
update_camel_positions_of_one(g, node, new_pos) ==
    IF node = None THEN g ELSE [g EXCEPT !.camels[node].pos = new_pos]

RECURSIVE update_camel_positions(_, _, _)
update_camel_positions(g, node, new_pos) ==
    IF node = None THEN g
    ELSE update_camel_positions([g EXCEPT !.camels[node].pos = new_pos],
                                g.nodes[node].next, new_pos)

RECURSIVE FindNode(_, _, _)
FindNode(g, temp_node, camel) ==
    IF temp_node = None \/ temp_node = camel THEN temp_node
    ELSE FindNode(g, g.nodes[temp_node].next, camel)

(* The relocation of move_camel: the camel's chain leaves its spot for     *)
(* the spot n further, on top (n > 0) or at the bottom (n < 0).            *)
relocate(g, color, n) ==
    LET pos == g.camels[color].pos
        camel_node == FindNode(g, g.spots[pos].head, color)
        top_camel == g.spots[pos].tail
        new_pos == pos + n
        g1 == update_camel_positions(g, camel_node, new_pos)
        g2 == remove_chain(g1, pos, camel_node)
    IN  IF n > 0
        THEN insert_chain_tail(g2, new_pos, camel_node, top_camel)
        ELSE insert_chain_head(g2, new_pos, camel_node, top_camel)

(* The coin of a movement card goes to the team whose turn it is *)
credit_active_team(g, card) ==
    [g EXCEPT !.teams[g.active_team].coins = @ + 1, !.card_coins[g.active_team] = @ + 1]

(* The coin of a movement card goes to the team that placed it *)
credit_card(g, card) ==
    [g EXCEPT !.teams[card.team].coins = @ + 1, !.card_coins[card.team] = @ + 1]

(* card_offset of a card that moves no camel *)
card_offset_none(card) == 0

card_offset(card) == IF card.forward THEN 1 ELSE -1

(* move_camel; depth counts the nested calls, and a call nested deeper    *)
(* than MaxDepth ends the whole call with a RecursionError.                *)
RECURSIVE move_camel(_, _, _, _)
move_camel(g, color, n, depth) ==
    IF g.exc # None THEN g
    ELSE IF depth > MaxDepth THEN [g EXCEPT !.exc = "RecursionError"]
    ELSE IF n = 0 THEN g
    ELSE
    LET pos == g.camels[color].pos
        camel_node == FindNode(g, g.spots[pos].head, color)
        top_camel == g.spots[pos].tail
        new_pos == pos + n
    IN  IF camel_node = None \/ top_camel = None
        THEN [g EXCEPT !.exc = "AssertionError"]
        ELSE IF n > 0 /\ new_pos > BOARD_SPOTS
        THEN LET g1 == move_camel(g, color, BOARD_SPOTS - pos, depth + 1)
             IN  IF g1.exc # None THEN g1 ELSE finish_game(g1)
        ELSE
        LET g3 == relocate(g, color, n)
            movement_card == g3.spots[new_pos].movement_card
        IN  IF movement_card # NoCard
            THEN LET card == movement_card[1]
                 IN  move_camel(credit_card(g3, card), color, card_offset(card),
                                depth + 1)
            ELSE g3

(* finish_turn that leaves the turn with the last team *)
finish_turn_keeps_last(g) ==
    IF g.active_team + 1 = Cardinality(DOMAIN g.teams) THEN g
    ELSE [g EXCEPT !.active_team = g.active_team + 1]

finish_turn(g) ==
    [g EXCEPT !.active_team = (g.active_team + 1) % Cardinality(DOMAIN g.teams)]

can_bet_on_leg(g, color) == Len(g.leg_bet_cards[color]) > 0

(* can_place_movement_card that does not look at the spots behind and     *)
(* ahead                                                                   *)
can_place_movement_card_beside_cards(g, position) ==
    IF g.teams[g.active_team].placed_movement_card THEN FALSE
    ELSE IF position < 1 \/ position > BOARD_SPOTS THEN FALSE
    ELSE IF g.spots[position].movement_card # NoCard THEN FALSE
    ELSE IF g.spots[position].head # None THEN FALSE
    ELSE TRUE

(* can_place_movement_card that does not look for camels on the spot *)
can_place_movement_card_on_camels(g, position) ==
    IF g.teams[g.active_team].placed_movement_card THEN FALSE
    ELSE IF position < 1 \/ position > BOARD_SPOTS THEN FALSE
    ELSE IF g.spots[position - 1].movement_card # NoCard THEN FALSE
    ELSE IF position < BOARD_SPOTS /\ g.spots[position + 1].movement_card # NoCard
         THEN FALSE
    ELSE IF g.spots[position].movement_card # NoCard THEN FALSE
    ELSE TRUE

can_place_movement_card(g, position) ==
    IF g.teams[g.active_team].placed_movement_card THEN FALSE
    ELSE IF position < 1 \/ position > BOARD_SPOTS THEN FALSE
    ELSE IF g.spots[position - 1].movement_card # NoCard THEN FALSE
    ELSE IF position < BOARD_SPOTS /\ g.spots[position + 1].movement_card # NoCard
         THEN FALSE
    ELSE IF g.spots[position].movement_card # NoCard THEN FALSE
    ELSE IF g.spots[position].head # None THEN FALSE
    ELSE TRUE

(* can_make_overall_bet that looks at the winner cards only *)
can_make_overall_bet_on_winner(g, color) ==
    \A j \in 1..Len(g.overall_winner_cards) :
        g.overall_winner_cards[j] # [color |-> color, team |-> g.active_team]

can_make_overall_bet(g, color) ==
    color \notin g.teams[g.active_team].overall_bets_made

(* roll_dice that leaves the rolled die among the dice remaining *)
roll_dice_keeps_die(g, color, move) ==
    LET g0 == [g EXCEPT !.teams[g.active_team].coins = @ + 1]
        g1 == move_camel(g0, color, move, 0)
        g2 == IF Cardinality(g1.die_remaining) = 0 THEN finish_leg(g1) ELSE g1
    IN  IF g1.exc # None THEN g1 ELSE finish_turn(g2)

roll_dice(g, color, move) ==
    LET g0 == [g EXCEPT !.teams[g.active_team].coins = @ + 1,
                        !.die_remaining = @ \ {color}]
        g1 == move_camel(g0, color, move, 0)
        g2 == IF Cardinality(g1.die_remaining) = 0 THEN finish_leg(g1) ELSE g1
    IN  IF g1.exc # None THEN g1 ELSE finish_turn(g2)

(* bet_on_leg that ends the turn before it looks for a card *)
bet_on_leg_ends_turn(g, color) ==
    IF ~can_bet_on_leg(finish_turn(g), color)
    THEN [finish_turn(g) EXCEPT !.exc = "InvalidMoveException"]
    ELSE LET card == [color |-> color, max_payoff |-> Head(g.leg_bet_cards[color])]
         IN  [finish_turn(g) EXCEPT
                 !.leg_bet_cards[color] = Tail(@),
                 !.teams[g.active_team].leg_bet_cards = @ \cup {card}]

(* bet_on_leg that leaves the card it hands out in the list as well *)
bet_on_leg_keeps_card(g, color) ==
    IF ~can_bet_on_leg(g, color) THEN [g EXCEPT !.exc = "InvalidMoveException"]
    ELSE LET card == [color |-> color, max_payoff |-> Head(g.leg_bet_cards[color])]
         IN  finish_turn([g EXCEPT !.teams[g.active_team].leg_bet_cards = @ \cup {card}])

bet_on_leg(g, color) ==
    IF ~can_bet_on_leg(g, color) THEN [g EXCEPT !.exc = "InvalidMoveException"]
    ELSE LET card == [color |-> color, max_payoff |-> Head(g.leg_bet_cards[color])]
             g1 == [g EXCEPT !.leg_bet_cards[color] = Tail(@),
                             !.teams[g.active_team].leg_bet_cards = @ \cup {card}]
         IN  finish_turn(g1)

(* place_movement_card that does not set placed_movement_card *)
place_movement_card_unmarked(g, direction, position) ==
    IF ~can_place_movement_card(g, position)
    THEN [g EXCEPT !.exc = "InvalidMoveException"]
    ELSE finish_turn([g EXCEPT
                         !.spots[position].movement_card =
                             <<[team |-> g.active_team, forward |-> direction]>>])

place_movement_card(g, direction, position) ==
    IF ~can_place_movement_card(g, position)
    THEN [g EXCEPT !.exc = "InvalidMoveException"]
    ELSE LET g1 == [g EXCEPT
                       !.spots[position].movement_card =
                           <<[team |-> g.active_team, forward |-> direction]>>,
                       !.teams[g.active_team].placed_movement_card = TRUE]
         IN  finish_turn(g1)

make_overall_bet(g, winner, color) ==
    IF ~can_make_overall_bet(g, color) THEN [g EXCEPT !.exc = "InvalidMoveException"]
    ELSE LET card == [color |-> color, team |-> g.active_team]
             g1 == [g EXCEPT !.teams[g.active_team].overall_bets_made = @ \cup {color}]
         IN  IF winner
             THEN [g1 EXCEPT !.overall_winner_cards = Append(@, card)]
             ELSE [g1 EXCEPT !.overall_loser_cards = Append(@, card)]

----------------------------------------------------------------------------
(* camelcalc.py.  The games live in a heap, a sequence of objects that a   *)
(* reference indexes: the caller's game, and the copies the enumerator     *)
(* makes of it.  A set of colors is gone through in the order of Colors:   *)
(* the number of leaves and the payoffs summed over them do not depend on  *)
(* the order.                                                              *)

(* deepcopy that hands back the object it was given *)
deepcopy_same_object(heap, game) == [heap |-> heap, ref |-> game]

(* deepcopy(game): a new object that equals game in every field *)
deepcopy(heap, game) == [heap |-> Append(heap, heap[game]), ref |-> Len(heap) + 1]

InOrder(S) == SelectSeq(Colors, LAMBDA c : c \in S)

(* generate_outcomes; depth counts the nested calls, and a call nested     *)
(* deeper than MaxCalcDepth ends the whole call with a RecursionError.     *)
RECURSIVE generate_outcomes(_, _, _)
RECURSIVE ForColor(_, _, _, _, _)
RECURSIVE ForRoll(_, _, _, _, _, _)
RECURSIVE Extend(_, _, _, _, _, _)
generate_outcomes(heap, game, depth) ==
    IF depth > MaxCalcDepth
    THEN [heap |-> heap, outcomes |-> <<>>, exc |-> "RecursionError"]
    ELSE IF Cardinality(heap[game].die_remaining) = 0
    THEN [heap |-> heap, outcomes |-> <<game>>, exc |-> None]
    ELSE ForColor(heap, game, InOrder(heap[game].die_remaining), <<>>, depth)

(* r is what the rolls of one color made of heap and outcomes *)
NextColor(r, game, colors, depth) ==
    IF r.exc # None THEN r
    ELSE ForColor(r.heap, game, Tail(colors), r.outcomes, depth)

(* for color in game.die_remaining *)
ForColor(heap, game, colors, outcomes, depth) ==
    IF colors = <<>> THEN [heap |-> heap, outcomes |-> outcomes, exc |-> None]
    ELSE NextColor(ForRoll(heap, game, Head(colors), 1, outcomes, depth),
                   game, colors, depth)

(* g.die_remaining.discard(color); outcomes.extend(generate_outcomes(g)),  *)
(* for the copy g of which g.move_camel(color, roll) made moved            *)
Recurse(heap, g, moved, game, color, roll, outcomes, depth) ==
    IF moved.exc # None
    THEN [heap |-> heap, outcomes |-> <<>>, exc |-> moved.exc]
    ELSE Extend(generate_outcomes(
                    [heap EXCEPT ![g] = [moved EXCEPT !.die_remaining = @ \ {color}]],
                    g, depth + 1),
                game, color, roll, outcomes, depth)

(* sub is what generate_outcomes(g) returned *)
Extend(sub, game, color, roll, outcomes, depth) ==
    IF sub.exc # None THEN sub
    ELSE ForRoll(sub.heap, game, color, roll + 1, outcomes \o sub.outcomes, depth)

(* g = deepcopy(game); g.move_camel(color, roll), copy being the heap with *)
(* the copy in it and the reference g to the copy                          *)
Move(copy, game, color, roll, outcomes, depth) ==
    Recurse(copy.heap, copy.ref, move_camel(copy.heap[copy.ref], color, roll, 0),
            game, color, roll, outcomes, depth)

(* for roll in range(1, 4) *)
ForRoll(heap, game, color, roll, outcomes, depth) ==
    IF roll > 3 THEN [heap |-> heap, outcomes |-> outcomes, exc |-> None]
    ELSE Move(deepcopy(heap, game), game, color, roll, outcomes, depth)

(* payoffs: the first leg-bet card of each color, <<>> where none is left *)
RECURSIVE TopCards(_, _)
TopCards(g, i) ==
    IF i > Len(Colors) THEN <<>>
    ELSE (Colors[i] :> (IF Len(g.leg_bet_cards[Colors[i]]) > 0
                        THEN <<[color |-> Colors[i],
                                max_payoff |-> g.leg_bet_cards[Colors[i]][1]]>>
                        ELSE <<>>))
             @@ TopCards(g, i + 1)

(* What the outcomes lo..hi add to expected_payoffs[card.color] *)
RECURSIVE SumPayoffs(_, _, _, _, _)
SumPayoffs(heap, outcomes, card, lo, hi) ==
    IF lo > hi THEN 0
    ELSE IF lo = hi
    THEN get_payoff(card, get_positions(heap[outcomes[lo]])[card.color])
    ELSE SumPayoffs(heap, outcomes, card, lo, (lo + hi) \div 2)
             + SumPayoffs(heap, outcomes, card, ((lo + hi) \div 2) + 1, hi)

(* expected_payoffs once the loop over the outcomes is through *)
RECURSIVE ExpectedPayoffs(_, _, _, _)
ExpectedPayoffs(heap, outcomes, payoffs, i) ==
    IF i > Len(Colors) THEN <<>>
    ELSE (Colors[i] :> (IF payoffs[Colors[i]] = <<>> THEN 0
                        ELSE SumPayoffs(heap, outcomes, payoffs[Colors[i]][1],
                                        1, Len(outcomes))))
             @@ ExpectedPayoffs(heap, outcomes, payoffs, i + 1)

(* max(expected_payoffs, key=expected_payoffs.get): the first color, in    *)
(* the order of the dict, whose value no other exceeds                     *)
FirstMax(expected_payoffs) ==
    Colors[CHOOSE i \in 1..Len(Colors) :
               /\ \A c \in Color : expected_payoffs[c] <= expected_payoffs[Colors[i]]
               /\ \A j \in 1..(i - 1) :
                     expected_payoffs[Colors[j]] < expected_payoffs[Colors[i]]]

(* The result: best_bet, and the quotient expected_payoffs[best_bet] /     *)
(* len(outcomes) as a pair                                                 *)
BestBet(r, expected_payoffs, best_bet) ==
    [heap |-> r.heap, outcomes |-> r.outcomes, exc |-> None, best_bet |-> best_bet,
     expected_payoff |-> <<expected_payoffs[best_bet], Len(r.outcomes)>>]

Expected(r, expected_payoffs) == BestBet(r, expected_payoffs, FirstMax(expected_payoffs))

(* r is what generate_outcomes(game) returned *)
Evaluate(r, payoffs) ==
    IF r.exc # None
    THEN [heap |-> r.heap, outcomes |-> <<>>, exc |-> r.exc, best_bet |-> None,
          expected_payoff |-> <<0, 1>>]
    ELSE Expected(r, ExpectedPayoffs(r.heap, r.outcomes, payoffs, 1))

calculate_best_leg_bet(heap, game) ==
    Evaluate(generate_outcomes(heap, game, 0), TopCards(heap[game], 1))

----------------------------------------------------------------------------
(* The state machine *)

Game ==
    [teams |-> teams, active_team |-> active_team, die_remaining |-> die_remaining,
     camels |-> camels, nodes |-> nodes, spots |-> spots,
     leg_bet_cards |-> leg_bet_cards,
     overall_winner_cards |-> overall_winner_cards,
     overall_loser_cards |-> overall_loser_cards,
     playing |-> playing, winners |-> winners, finishes |-> finishes,
     settled |-> settled, card_coins |-> card_coins, exc |-> None]

Becomes(g) ==
    /\ teams' = g.teams
    /\ active_team' = g.active_team
    /\ die_remaining' = g.die_remaining
    /\ camels' = g.camels
    /\ nodes' = g.nodes
    /\ spots' = g.spots
    /\ leg_bet_cards' = g.leg_bet_cards
    /\ overall_winner_cards' = g.overall_winner_cards
    /\ overall_loser_cards' = g.overall_loser_cards
    /\ playing' = g.playing
    /\ winners' = g.winners
    /\ finishes' = g.finishes
    /\ settled' = g.settled
    /\ card_coins' = g.card_coins

StartsAs(g) ==
    /\ teams = g.teams
    /\ active_team = g.active_team
    /\ die_remaining = g.die_remaining
    /\ camels = g.camels
    /\ nodes = g.nodes
    /\ spots = g.spots
    /\ leg_bet_cards = g.leg_bet_cards
    /\ overall_winner_cards = g.overall_winner_cards
    /\ overall_loser_cards = g.overall_loser_cards
    /\ playing = g.playing
    /\ winners = g.winners
    /\ finishes = g.finishes
    /\ settled = g.settled
    /\ card_coins = g.card_coins

NoCalls == [roll_dice |-> 0, bet_on_leg |-> 0, place_movement_card |-> 0,
            make_overall_bet |-> 0, short |-> 0]

(* What a run may do: c are the calls made once the call at hand has       *)
(* returned.                                                               *)
Allowed(c) ==
    /\ c.roll_dice <= Len(limits.dice)
    /\ c.short <= limits.short
    /\ c.bet_on_leg <= limits.bet_on_leg
    /\ c.place_movement_card <= limits.place_movement_card
    /\ c.make_overall_bet <= limits.make_overall_bet
    /\ c.bet_on_leg + c.place_movement_card + c.make_overall_bet <= limits.other

Starts(number_of_teams, rolls, lim) ==
    /\ StartsAs(NewGame(number_of_teams, rolls))
    /\ ret = [op |-> "Game", exc |-> None]
    /\ calls = NoCalls
    /\ limits = lim

(* The call returns r, or raises g.exc; a call that raises is not counted. *)
Returns(g, r, c) ==
    /\ Allowed(c)
    /\ Becomes(g)
    /\ ret' = [r EXCEPT !.exc = g.exc]
    /\ calls' = IF g.exc = None THEN c ELSE calls
    /\ UNCHANGED limits

(* The calls of the engine.  A call is made with any arguments the limits  *)
(* of the run allow, whether or not the game is still being played.        *)
RollDiceCall ==
    /\ calls.roll_dice < Len(limits.dice)
    /\ \E color \in die_remaining, move \in 1..3 :
          /\ <<color, move>> \in limits.dice[calls.roll_dice + 1]
          /\ Returns(roll_dice(Game, color, move),
                  [op |-> "roll_dice", color |-> color, move |-> move,
                   pos |-> camels[color].pos, exc |-> None],
                  [calls EXCEPT !.roll_dice = @ + 1, !.short = @ + (3 - move)])

BetOnLegCall ==
    \E color \in limits.bet_colors :
          Returns(bet_on_leg(Game, color),
                  [op |-> "bet_on_leg", color |-> color,
                   value |-> IF can_bet_on_leg(Game, color)
                             THEN Head(leg_bet_cards[color]) ELSE 0,
                   exc |-> None],
                  [calls EXCEPT !.bet_on_leg = @ + 1])

PlaceMovementCardCall ==
    \E direction \in BOOLEAN, position \in limits.card_spots :
          Returns(place_movement_card(Game, direction, position),
                  [op |-> "place_movement_card", direction |-> direction,
                   position |-> position, exc |-> None],
                  [calls EXCEPT !.place_movement_card = @ + 1])

MakeOverallBetCall ==
    \E winner \in BOOLEAN, color \in limits.overall_colors :
          Returns(make_overall_bet(Game, winner, color),
                  [op |-> "make_overall_bet", winner |-> winner, color |-> color,
                   exc |-> None],
                  [calls EXCEPT !.make_overall_bet = @ + 1])

(* The calls as play makes them: while the game is being played *)
RollDice == playing /\ RollDiceCall

BetOnLeg == playing /\ BetOnLegCall

PlaceMovementCard == playing /\ PlaceMovementCardCall

MakeOverallBet == playing /\ MakeOverallBetCall

(* What calculate_best_leg_bet leaves of a game in ret: where the camels   *)
(* stand, how they are stacked, and the dice left                          *)
Board(g) == [camels |-> g.camels, nodes |-> g.nodes, die_remaining |-> g.die_remaining]

(* The caller's game is object 1 of the heap, before and after the call *)
CalculateBestLegBet ==
    /\ playing
    /\ Cardinality(die_remaining) <= MaxDice
    /\ \E r \in {calculate_best_leg_bet(<<Game>>, 1)} :
          Returns([r.heap[1] EXCEPT !.exc = r.exc],
                  [op |-> "calculate_best_leg_bet", best_bet |-> r.best_bet,
                   expected_payoff |-> r.expected_payoff,
                   outcomes |-> [i \in 1..Len(r.outcomes) |-> Board(r.heap[r.outcomes[i]])],
                   exc |-> None],
                  calls)

----------------------------------------------------------------------------
(* Spec: every call of the engine, up to MaxRolls rolls that fall short of *)
(* 3 by at most MaxShort pips in total, and MaxOther other calls.  The     *)
(* limits of a run name, for each of its rolls, the outcomes the dice may  *)
(* show (dice), and the arguments the other calls are made with.           *)

CardSpots == {0, 5, 14, 15, 16}

BetColors == {"blue", "white"}

SpecLimits ==
    [dice |-> [i \in 1..MaxRolls |-> Color \X (1..3)],
     short |-> MaxShort, bet_on_leg |-> MaxOther,
     place_movement_card |-> MaxOther, make_overall_bet |-> MaxOther,
     other |-> MaxOther, bet_colors |-> BetColors, overall_colors |-> BetColors,
     card_spots |-> CardSpots]

Init ==
    \E n \in MinTeams..MaxTeams : Starts(n, [c \in Color |-> 3], SpecLimits)

Next == RollDice \/ BetOnLeg \/ PlaceMovementCard \/ MakeOverallBet

Spec == Init /\ [][Next]_vars

(* SpecBets: runs of few rolls, in which one color is bet on until its     *)
(* cards give out, cards are placed side by side and on camels, and a team *)
(* makes an overall bet twice.                                             *)

BetsLimits ==
    [dice |-> [i \in 1..MaxBetRolls |-> Color \X {3}],
     short |-> 0, bet_on_leg |-> MaxBets,
     place_movement_card |-> 2, make_overall_bet |-> 2,
     other |-> MaxBetOther, bet_colors |-> {"blue"}, overall_colors |-> {"blue"},
     card_spots |-> {2, 3, 4}]

InitBets == Starts(MinTeams, [c \in Color |-> 3], BetsLimits)

SpecBets == InitBets /\ [][Next]_vars

(* SpecCalc: calculate_best_leg_bet with at most MaxDice dice left, in     *)
(* runs of rolls of 3 that take the camels towards the last spot, and in   *)
(* runs of short rolls in which blue and green are bet on until their      *)
(* cards give out.                                                         *)

NearFinishLimits ==
    [dice |-> [i \in 1..MaxCalcRolls |-> Color \X {3}],
     short |-> 0, bet_on_leg |-> 1, place_movement_card |-> 0, make_overall_bet |-> 0,
     other |-> 1, bet_colors |-> {"blue"}, overall_colors |-> {}, card_spots |-> {}]

ExhaustedLimits ==
    [dice |-> [i \in 1..MaxCalcRolls |-> {<<Colors[Len(Colors) + 1 - i], 1>>}],
     short |-> 2 * MaxCalcRolls, bet_on_leg |-> MaxCalcBets,
     place_movement_card |-> 0, make_overall_bet |-> 0,
     other |-> MaxCalcBets, bet_colors |-> {"blue", "green"}, overall_colors |-> {},
     card_spots |-> {}]

InitCalc ==
    \E lim \in {NearFinishLimits, ExhaustedLimits} :
        Starts(MinTeams, [c \in Color |-> 3], lim)

NextCalc == RollDice \/ BetOnLeg \/ CalculateBestLegBet

SpecCalc == InitCalc /\ [][NextCalc]_vars

(* SpecSettle: games played to their end.  The dice take the camels up    *)
(* the board in one stack; in the runs of two teams a card is placed on    *)
(* the last spot, in the runs of SettleTeams teams each team may bet on    *)
(* the overall winner or loser before it rolls.                            *)

LastSpotLimits ==
    [dice |-> <<{<<"white", 3>>}, {<<"yellow", 3>>}, {<<"orange", 3>>},
                {<<"green", 3>>}, {"blue"} \X (1..3)>>,
     short |-> 2, bet_on_leg |-> 0, place_movement_card |-> 1, make_overall_bet |-> 2,
     other |-> 3, bet_colors |-> {}, overall_colors |-> {"blue", "white"},
     card_spots |-> {BOARD_SPOTS}]

EveryTeamLimits ==
    [dice |-> <<{<<"white", 3>>}, {<<"yellow", 3>>}, {<<"orange", 3>>},
                {<<"green", 3>>}, {<<"blue", 1>>}>>
              \o [i \in 1..(SettleTeams - Len(Colors)) |-> {<<"blue", 1>>, <<"green", 2>>}],
     short |-> 2 * SettleTeams, bet_on_leg |-> 0, place_movement_card |-> 0,
     make_overall_bet |-> MaxOverall,
     other |-> MaxOverall, bet_colors |-> {}, overall_colors |-> {"blue"},
     card_spots |-> {}]

InitSettle ==
    \/ Starts(MinTeams, [c \in Color |-> 3], LastSpotLimits)
    \/ Starts(SettleTeams, [c \in Color |-> 3], EveryTeamLimits)

NextSettle == RollDice \/ PlaceMovementCard \/ MakeOverallBet

SpecSettle == InitSettle /\ [][NextSettle]_vars

(* SpecEngine: the calls of the engine on a game that comes to its end and *)
(* after it has ended.  The dice take the camels up the board in one       *)
(* stack, as in SpecSettle, through the end of the first leg; MaxAfter     *)
(* more rolls follow.  Cards are placed on the last spots.                 *)

EngineLimits ==
    [dice |-> <<{<<"white", 3>>}, {<<"yellow", 3>>}, {<<"orange", 3>>},
                {<<"green", 3>>}, {"blue"} \X (1..3)>>
              \o [i \in 1..MaxAfter |-> {"blue", "green", "yellow"} \X {1, 3}],
     short |-> 2 * (MaxAfter + 1), bet_on_leg |-> 1, place_movement_card |-> 2,
     make_overall_bet |-> 1,
     other |-> 3, bet_colors |-> {"blue"}, overall_colors |-> {"blue"},
     card_spots |-> {BOARD_SPOTS - 2, BOARD_SPOTS}]

InitEngine == Starts(MinTeams, [c \in Color |-> 3], EngineLimits)

NextEngine == RollDiceCall \/ BetOnLegCall \/ PlaceMovementCardCall \/ MakeOverallBetCall

SpecEngine == InitEngine /\ [][NextEngine]_vars

(* SpecLeg: one leg played to its end and the calls after it.  The dice    *)
(* come up in the order of Colors, the first three show 1 or 2, so that    *)
(* the camels end the leg in many orders; up to MaxLegBets leg bets are    *)
(* made on blue and white, and a movement card is placed on the spot two   *)
(* ahead of the start.                                                     *)

LegLimits ==
    [dice |-> [i \in 1..Len(Colors) |-> {Colors[i]} \X (IF i <= 3 THEN {1, 2} ELSE {1})],
     short |-> 2 * Len(Colors), bet_on_leg |-> MaxLegBets, place_movement_card |-> 1,
     make_overall_bet |-> 1,
     other |-> MaxLegBets, bet_colors |-> {"blue", "white"}, overall_colors |-> {"green"},
     card_spots |-> {4}]

InitLeg == Starts(MinTeams, [c \in Color |-> 3], LegLimits)

SpecLeg == InitLeg /\ [][Next]_vars

(* SpecCards: CardTeams teams place movement cards on the three spots     *)
(* ahead of the start, side by side where the engine lets them, and blue   *)
(* and green roll 1 or 2 onto them.                                        *)

CardsLimits ==
    [dice |-> [i \in 1..MaxCardRolls |-> {"blue", "green"} \X {1, 2}],
     short |-> 2 * MaxCardRolls, bet_on_leg |-> 0, place_movement_card |-> CardTeams,
     make_overall_bet |-> 0,
     other |-> CardTeams, bet_colors |-> {}, overall_colors |-> {},
     card_spots |-> {3, 4, 5}]

InitCards == Starts(CardTeams, [c \in Color |-> 3], CardsLimits)

NextCards == RollDice \/ PlaceMovementCard

SpecCards == InitCards /\ [][NextCards]_vars

(* SpecTurns: games of every number of teams from MinTeams to TeamNames.  *)
(* The dice come up in the order of Colors, again and again, and show 1,   *)
(* for MaxTurnRolls rolls, so that with a leg bet and a movement card the  *)
(* turn comes round to the first team and a leg ends on the way.           *)

TurnsLimits ==
    [dice |-> [i \in 1..MaxTurnRolls |-> {<<Colors[((i - 1) % Len(Colors)) + 1], 1>>}],
     short |-> 2 * MaxTurnRolls, bet_on_leg |-> 1, place_movement_card |-> 1,
     make_overall_bet |-> 0,
     other |-> 2, bet_colors |-> {"blue"}, overall_colors |-> {},
     card_spots |-> {6}]

InitTurns ==
    \E n \in MinTeams..TeamNames : Starts(n, [c \in Color |-> 3], TurnsLimits)

NextTurns == RollDice \/ BetOnLeg \/ PlaceMovementCard

SpecTurns == InitTurns /\ [][NextTurns]_vars

(* SpecOverall: overall bets.  In the runs without a roll the first team  *)
(* makes MaxOverallBets bets and one more call on any colors; in the runs  *)
(* of a game that the fifth roll ends, both teams bet on two colors.       *)

EveryColorLimits ==
    [dice |-> <<>>,
     short |-> 0, bet_on_leg |-> 0, place_movement_card |-> 0,
     make_overall_bet |-> MaxOverallBets + 1,
     other |-> MaxOverallBets + 1, bet_colors |-> {}, overall_colors |-> Color,
     card_spots |-> {}]

ToTheEndLimits ==
    [dice |-> [i \in 1..Len(Colors) |-> {<<Colors[Len(Colors) + 1 - i], 3>>}],
     short |-> 0, bet_on_leg |-> 0, place_movement_card |-> 0,
     make_overall_bet |-> 3,
     other |-> 3, bet_colors |-> {}, overall_colors |-> {"blue", "green"},
     card_spots |-> {}]

InitOverall ==
    \E lim \in {EveryColorLimits, ToTheEndLimits} :
        Starts(MinTeams, [c \in Color |-> 3], lim)

NextOverall == RollDice \/ MakeOverallBet

SpecOverall == InitOverall /\ [][NextOverall]_vars

----------------------------------------------------------------------------
(* The stacks as sequences, read off the linked lists *)

(* The camels from node n upwards along next, at most fuel of them *)
RECURSIVE Upwards(_, _, _)
Upwards(g, n, fuel) ==
    IF n = None \/ fuel = 0 THEN <<>>
    ELSE <<n>> \o Upwards(g, g.nodes[n].next, fuel - 1)

(* The camels from node n downwards along prev, at most fuel of them *)
RECURSIVE Downwards(_, _, _)
Downwards(g, n, fuel) ==
    IF n = None \/ fuel = 0 THEN <<>>
    ELSE <<n>> \o Downwards(g, g.nodes[n].prev, fuel - 1)

(* The stack of spot s, bottom first *)
StackOf(g, s) == Upwards(g, g.spots[s].head, Len(Colors) + 1)

(* The stack of spot s, top first *)
StackDown(g, s) == Downwards(g, g.spots[s].tail, Len(Colors) + 1)

Reverse(q) == [i \in 1..Len(q) |-> q[Len(q) + 1 - i]]

RECURSIVE AllStacks(_, _)
AllStacks(g, s) ==
    IF s > BOARD_SPOTS THEN <<>> ELSE StackOf(g, s) \o AllStacks(g, s + 1)

Range(q) == {q[i] : i \in 1..Len(q)}

IndexIn(q, x) == CHOOSE i \in 1..Len(q) : q[i] = x

----------------------------------------------------------------------------
(* C1: in every reachable state the stacks of the 16 spots hold, between   *)
(* them, exactly 5 camels: each color exactly once.                        *)
C1_FiveCamels ==
    LET all == AllStacks(Game, 0)
    IN  /\ Len(all) = Len(Colors)
        /\ Range(all) = Color

(* A game that was finished by a roll after a movement card was placed *)
C1_Witness ==
    /\ ~playing
    /\ ret.op = "roll_dice"
    /\ calls.place_movement_card = 1

(* C2: get_positions is a bijection from the colors onto 1..5; a camel on  *)
(* a higher spot has a smaller place than any camel on a lower spot, and   *)
(* on one spot a camel higher in the stack has a smaller place.            *)
C2_Ranking ==
    \A r \in {get_positions(Game)}, st \in {[s \in 0..BOARD_SPOTS |-> StackOf(Game, s)]} :
    \A spot \in {[c \in Color |-> CHOOSE s \in 0..BOARD_SPOTS : c \in Range(st[s])]} :
    \A height \in {[c \in Color |-> IndexIn(st[spot[c]], c)]} :
        /\ DOMAIN r = Color
        /\ {r[c] : c \in Color} = 1..5
        /\ \A c1, c2 \in Color :
              (spot[c1] > spot[c2] \/ (spot[c1] = spot[c2] /\ height[c1] > height[c2]))
                  => r[c1] < r[c2]

(* Camels share a spot, and others stand on other spots *)
C2_Witness ==
    /\ \E s \in 0..BOARD_SPOTS : Len(StackOf(Game, s)) >= 2
    /\ Cardinality({s \in 0..BOARD_SPOTS : spots[s].head # None}) >= 3

(* One relocation of camel c by n # 0 takes along exactly the camels at   *)
(* or above c, in their order; the camels below c stay, in their order;    *)
(* the chain goes on top of the camels of the destination when n > 0 and   *)
(* below them when n < 0; no other stack changes.                          *)
RelocatesChain(g, c, n) ==
    \A from \in {g.camels[c].pos} :
    \A to \in {from + n}, S \in {StackOf(g, from)}, g2 \in {relocate(g, c, n)} :
    \A D \in {StackOf(g, to)}, i \in {IndexIn(S, c)} :
    \A below \in {SubSeq(S, 1, i - 1)}, chain \in {SubSeq(S, i, Len(S))} :
    \A S2 \in {StackOf(g2, from)}, D2 \in {StackOf(g2, to)} :
        /\ S2 = below
        /\ D2 = IF n > 0 THEN D \o chain ELSE chain \o D
        /\ StackDown(g2, from) = Reverse(S2)
        /\ StackDown(g2, to) = Reverse(D2)
        /\ \A s \in 0..BOARD_SPOTS : s \notin {from, to} => g2.spots[s] = g.spots[s]
        /\ \A x \in Color :
              /\ x \notin Range(S) \cup Range(D) => g2.nodes[x] = g.nodes[x]
              /\ g2.camels[x].pos = IF x \in Range(chain) THEN to ELSE g.camels[x].pos

(* C3: in every reachable state, each relocation of a camel that stays on  *)
(* the board, by -1, 1, 2 or 3, moves exactly its chain as said above.     *)
C3_ChainIntegrity ==
    \A g \in {Game} :
    \A c \in Color, n \in {-1, 1, 2, 3} :
        (g.camels[c].pos + n) \in 0..BOARD_SPOTS => RelocatesChain(g, c, n)

(* A roll has put a camel that carries another onto an occupied spot and   *)
(* left camels behind on the spot it came from.                            *)
C3_Witness ==
    /\ ret.op = "roll_dice"
    /\ ret.exc = None
    /\ nodes[ret.color].prev # None
    /\ nodes[ret.color].next # None
    /\ camels[ret.color].pos - ret.move >= 0
    /\ spots[camels[ret.color].pos - ret.move].head # None

----------------------------------------------------------------------------
(* Movement cards *)

(* The camel c and the camels above it, bottom first *)
ChainOf(g, c) == Upwards(g, c, Len(Colors) + 1)

(* The spot a move of camel c by n > 0 lands on: spot 15 when it overshoots *)
Landing(g, c, n) ==
    IF g.camels[c].pos + n > BOARD_SPOTS THEN BOARD_SPOTS ELSE g.camels[c].pos + n

(* A roll of n for camel c takes it to another spot, which carries a card *)
LandsOnCard(g, c, n) ==
    /\ g.playing
    /\ c \in g.die_remaining
    /\ Landing(g, c, n) # g.camels[c].pos
    /\ g.spots[Landing(g, c, n)].movement_card # NoCard

(* The sequence q without the members of S *)
Without(q, S) == SelectSeq(q, LAMBDA x : x \notin S)

(* After move_camel(c, n) from g gave g2: the card brought its team one    *)
(* coin and no other team any, and the chain of c stands on spot to, on    *)
(* top of the other camels of that spot for a forward card and below them  *)
(* for a backward card.                                                    *)
Triggered(g, g2, c, n, to) ==
    \A card \in {g.spots[Landing(g, c, n)].movement_card[1]}, chain \in {ChainOf(g, c)} :
        /\ g2.exc = None
        /\ \A t \in DOMAIN g.teams :
              /\ g2.card_coins[t] = g.card_coins[t] + (IF t = card.team THEN 1 ELSE 0)
              /\ g2.finishes = g.finishes =>
                    g2.teams[t].coins = g.teams[t].coins + (IF t = card.team THEN 1 ELSE 0)
        /\ \A x \in Range(chain) : g2.camels[x].pos = to
        /\ to \in 0..BOARD_SPOTS
        /\ \A others \in {Without(StackOf(g, to), Range(chain))} :
              StackOf(g2, to) = IF card.forward THEN others \o chain
                                                ELSE chain \o others

(* C9 as stated: a camel that lands on a spot with a movement card brings  *)
(* the card's team exactly 1 coin, and ends, with its whole chain, one     *)
(* spot further in the card's direction than the card's spot.              *)
C9_CardTrigger ==
    \A g \in {Game} : \A c \in Color, n \in 1..3 :
        LandsOnCard(g, c, n) =>
            Triggered(g, move_camel(g, c, n, 0), c, n,
                      Landing(g, c, n)
                          + card_offset(g.spots[Landing(g, c, n)].movement_card[1]))

(* C9, amended: as stated, but the chain that lands on a forward card on   *)
(* spot 15 stays on spot 15, on top, and the game is finished.             *)
C9_CardTriggerOnBoard ==
    \A g \in {Game} : \A c \in Color, n \in 1..3 :
        LandsOnCard(g, c, n) =>
            \A g2 \in {move_camel(g, c, n, 0)} :
            \A to \in {Landing(g, c, n)
                          + card_offset(g.spots[Landing(g, c, n)].movement_card[1])} :
                IF to > BOARD_SPOTS
                THEN Triggered(g, g2, c, n, BOARD_SPOTS) /\ ~g2.playing
                ELSE Triggered(g, g2, c, n, to)

(* A roll took a camel that carries others onto a movement card, which     *)
(* moved them on and paid its team                                         *)
C9_Witness ==
    /\ ret.op = "roll_dice"
    /\ ret.exc = None
    /\ nodes[ret.color].next # None
    /\ \E t \in DOMAIN teams, forward \in BOOLEAN :
          /\ spots[ret.pos + ret.move].movement_card =
                 <<[team |-> t, forward |-> forward]>>
          /\ camels[ret.color].pos = ret.pos + ret.move + (IF forward THEN 1 ELSE -1)
          /\ card_coins[t] = 1

(* The positions placements are tried on: the board and beyond its ends *)
Positions == -1..(BOARD_SPOTS + 2)

NoCardOn(g, q) == q \notin 0..BOARD_SPOTS \/ g.spots[q].movement_card = NoCard

(* What a placement on position needs, last being the last spot allowed *)
Placeable(g, position, last) ==
    /\ ~g.teams[g.active_team].placed_movement_card
    /\ 1 <= position /\ position <= last
    /\ NoCardOn(g, position - 1)
    /\ NoCardOn(g, position + 1)
    /\ NoCardOn(g, position)
    /\ StackOf(g, position) = <<>>

(* C10 as stated: place_movement_card succeeds only if the active team has *)
(* placed no card this leg, 1 <= position <= 14, the spots position - 1,   *)
(* position + 1 and position carry no card, and position holds no camel.   *)
C10_Placement ==
    \A g \in {Game} : \A direction \in BOOLEAN, position \in Positions :
        place_movement_card(g, direction, position).exc = None
            => Placeable(g, position, BOARD_SPOTS - 1)

(* C10, amended: place_movement_card succeeds exactly if the active team   *)
(* has placed no card this leg, 1 <= position <= 15, the spots             *)
(* position - 1, position and (below 15) position + 1 carry no card, and   *)
(* position holds no camel.                                                *)
C10_PlacementToLastSpot ==
    \A g \in {Game} : \A direction \in BOOLEAN, position \in Positions :
        place_movement_card(g, direction, position).exc = None
            <=> Placeable(g, position, BOARD_SPOTS)

(* A card was placed on spot 15 *)
C10_Witness ==
    /\ ret.op = "place_movement_card"
    /\ ret.exc = None
    /\ ret.position = BOARD_SPOTS
    /\ spots[BOARD_SPOTS].movement_card # NoCard

----------------------------------------------------------------------------
(* Calls that fail *)

Raised(g) == [g EXCEPT !.exc = "InvalidMoveException"]

(* C7: bet_on_leg on a color with no leg-bet card left, place_movement_card *)
(* where can_place_movement_card is false, and make_overall_bet on a color *)
(* the active team has bet on already, raise InvalidMoveException and      *)
(* leave every field of the game, the active team included, as it was.     *)
C7_FailedCallsChangeNothing ==
    \A g \in {Game} :
        /\ \A color \in Color :
              Len(g.leg_bet_cards[color]) = 0 => bet_on_leg(g, color) = Raised(g)
        /\ \A direction \in BOOLEAN, position \in Positions :
              ~can_place_movement_card(g, position)
                  => place_movement_card(g, direction, position) = Raised(g)
        /\ \A winner \in BOOLEAN, color \in Color :
              color \in g.teams[g.active_team].overall_bets_made
                  => make_overall_bet(g, winner, color) = Raised(g)

(* A bet on a color whose cards had given out was turned down, in a game   *)
(* in which a team has made an overall bet and has placed a card           *)
C7_Witness ==
    /\ ret.op = "bet_on_leg"
    /\ ret.exc = "InvalidMoveException"
    /\ leg_bet_cards[ret.color] = <<>>
    /\ teams[active_team].overall_bets_made # {}
    /\ teams[active_team].placed_movement_card

----------------------------------------------------------------------------
(* The outcome enumerator *)

RECURSIVE Factorial(_)
Factorial(n) == IF n <= 1 THEN 1 ELSE n * Factorial(n - 1)

(* C4: with k dice left, generate_outcomes yields exactly k! * 3^k leaves, *)
(* also where a camel stands within 3 spots of spot 15.                    *)
C4_LeafCount ==
    ret.op = "calculate_best_leg_bet" =>
        /\ ret.exc = None
        /\ Len(ret.outcomes) = Factorial(Cardinality(die_remaining))
                                   * 3 ^ Cardinality(die_remaining)

(* The leaves of the outcome tree of g, each worked out from the game     *)
(* above it alone: the dice left in the order of Colors, each with the     *)
(* rolls 1, 2, 3.                                                          *)
RECURSIVE Leaves(_, _)
RECURSIVE LeavesOf(_, _, _, _)
Leaves(g, depth) ==
    IF depth > MaxCalcDepth THEN <<>>
    ELSE IF g.die_remaining = {} THEN <<g>>
    ELSE LeavesOf(g, InOrder(g.die_remaining), 1, depth)

LeavesOf(g, colors, i, depth) ==
    IF i > 3 * Len(colors) THEN <<>>
    ELSE LET color == colors[((i - 1) \div 3) + 1]
             roll == ((i - 1) % 3) + 1
             child == [move_camel(g, color, roll, 0) EXCEPT !.die_remaining = @ \ {color}]
         IN  Leaves(child, depth + 1) \o LeavesOf(g, colors, i + 1, depth)

(* C5: calculate_best_leg_bet leaves every field of the caller's game as   *)
(* it was, and no branch of the enumeration sees the move of another: each *)
(* leaf is what its own rolls make of the caller's game.                   *)
C5_CallerUnchanged ==
    [][ret'.op = "calculate_best_leg_bet" =>
          /\ UNCHANGED <<teams, active_team, die_remaining, camels, nodes, spots,
                         leg_bet_cards, overall_winner_cards, overall_loser_cards,
                         playing, winners>>
          /\ ret'.exc = None =>
                \A leaves \in {Leaves(Game, 0)} :
                    ret'.outcomes = [i \in 1..Len(leaves) |-> Board(leaves[i])]]_vars

(* calculate_best_leg_bet has returned with two dice left: 18 leaves, not  *)
(* all with the same board                                                 *)
C5_Witness ==
    /\ ret.op = "calculate_best_leg_bet"
    /\ ret.exc = None
    /\ Cardinality(die_remaining) = 2
    /\ Len(ret.outcomes) = 18
    /\ \E i, j \in 1..Len(ret.outcomes) : ret.outcomes[i].camels # ret.outcomes[j].camels

(* C6: the color calculate_best_leg_bet returns has a leg-bet card left *)
C6_BestHasCard ==
    (ret.op = "calculate_best_leg_bet" /\ ret.exc = None) =>
        Len(leg_bet_cards[ret.best_bet]) > 0

----------------------------------------------------------------------------
(* The overall bets *)

(* The place of each camel: one more than the camels ahead of it, on a    *)
(* higher spot or higher on its spot                                       *)
Place(g) ==
    [c \in Color |->
        LET sc == CHOOSE s \in 0..BOARD_SPOTS : c \in Range(StackOf(g, s))
        IN  1 + Cardinality({x \in Color :
                    LET sx == CHOOSE s \in 0..BOARD_SPOTS : x \in Range(StackOf(g, s))
                    IN  \/ sx > sc
                        \/ sx = sc /\ IndexIn(StackOf(g, sx), x)
                                          > IndexIn(StackOf(g, sc), c)})]

(* What card j of cards is worth when place is the place that wins: the    *)
(* i-th card that is right pays OverallPayoffs[i], from the sixth on 0; a  *)
(* card that is wrong costs 1.                                             *)
Worth(cards, j, place, at) ==
    IF at[cards[j].color] = place
    THEN LET i == Cardinality({k \in 1..j : at[cards[k].color] = place})
         IN  IF i <= Len(OverallPayoffs) THEN OverallPayoffs[i] ELSE 0
    ELSE -1

(* What the cards of team t among cards[1..j] are worth *)
RECURSIVE Due(_, _, _, _, _)
Due(cards, j, place, at, t) ==
    IF j = 0 THEN 0
    ELSE Due(cards, j - 1, place, at, t)
             + (IF cards[j].team = t THEN Worth(cards, j, place, at) ELSE 0)

Settlement(g, t) ==
    \A at \in {Place(g)} :
        g.settled[t] =
            Due(g.overall_winner_cards, Len(g.overall_winner_cards), 1, at, t)
                + Due(g.overall_loser_cards, Len(g.overall_loser_cards), 5, at, t)

(* C8: at the end of the game each team has from its overall bets what the *)
(* rule gives: the winner cards in the order they were made, the i-th      *)
(* right one 8, 5, 3, 2, 1 and then 0, a wrong one -1, and the loser cards *)
(* likewise with place 5.                                                  *)
C8_OverallSettlement ==
    ~playing => \A t \in DOMAIN teams : Settlement(Game, t)

(* The same of the games that finish_game has ended once *)
SettledOnce ==
    (~playing /\ finishes = 1) => \A t \in DOMAIN teams : Settlement(Game, t)

(* A game in which six winner cards were right has ended *)
SixRight ==
    /\ ~playing
    /\ finishes = 1
    /\ Len(overall_winner_cards) >= 6
    /\ \A j \in 1..Len(overall_winner_cards) :
          Place(Game)[overall_winner_cards[j].color] = 1

----------------------------------------------------------------------------
(* The card a successful make_overall_bet has appended: the last of the    *)
(* list the call chose                                                     *)
PlacedOverallCard ==
    IF ret.winner
    THEN overall_winner_cards[Len(overall_winner_cards)]
    ELSE overall_loser_cards[Len(overall_loser_cards)]

(* C11: after a successful make_overall_bet(winner, color) the last card   *)
(* of the chosen list has the color and the team that made the bet, and    *)
(* the active team is the next team in turn order after that team.         *)
C11_OverallBetEndsTurn ==
    (ret.op = "make_overall_bet" /\ ret.exc = None) =>
        /\ PlacedOverallCard.color = ret.color
        /\ active_team = (PlacedOverallCard.team + 1) % Cardinality(DOMAIN teams)

(* The half of it that holds: the card is appended with the color and the  *)
(* team whose turn it still is.                                            *)
OverallBetKeepsTurn ==
    (ret.op = "make_overall_bet" /\ ret.exc = None) =>
        /\ PlacedOverallCard.color = ret.color
        /\ PlacedOverallCard.team = active_team

----------------------------------------------------------------------------
(* A move of n from spot pos, followed through the movement cards it       *)
(* lands on, comes to a forward move whose target is beyond the last spot  *)
RECURSIVE Exceeds(_, _, _, _)
Exceeds(g, pos, n, fuel) ==
    IF n > 0 /\ pos + n > BOARD_SPOTS THEN TRUE
    ELSE IF fuel = 0 \/ pos + n < 0 THEN FALSE
    ELSE \A card \in {g.spots[pos + n].movement_card} :
            card # NoCard /\ Exceeds(g, pos + n, IF card[1].forward THEN 1 ELSE -1, fuel - 1)

PlayingStops ==
    (playing /\ ~playing') =>
        /\ ret'.op = "roll_dice"
        /\ Exceeds(Game, camels[ret'.color].pos, ret'.move, BOARD_SPOTS)

StaysFinished == ~playing => ~playing'

(* C12: playing goes from true to false only in a roll_dice whose move, or *)
(* the move of a card it lands on, is a forward move to beyond spot 15; no *)
(* bet, card placement, leg end or move that stays on the board ends the   *)
(* game; and once playing is false no call makes it true again.            *)
C12_PlayingEndsByOverflow == [][PlayingStops /\ StaysFinished]_vars

(* A roll was made after the game had ended, it stayed on the board, and  *)
(* the game is still over.                                                 *)
C12_Witness ==
    /\ ~playing
    /\ ret.op = "roll_dice"
    /\ ret.exc = None
    /\ ret.pos + ret.move <= BOARD_SPOTS
    /\ Cardinality(die_remaining) = Len(Colors) - 1

----------------------------------------------------------------------------
(* What the leg bet cards in cards are worth when the camels end the leg   *)
(* in the places at: a card on the first pays its max_payoff, on the       *)
(* second 1, on the third, fourth or fifth -1.  k goes through the cards   *)
(* there are: each color with each of MaxValues.                           *)
LegCardWorth(card, at) ==
    IF at[card.color] = 1 THEN card.max_payoff
    ELSE IF at[card.color] = 2 THEN 1
    ELSE IF at[card.color] \in 3..5 THEN -1
    ELSE 0

RECURSIVE LegDue(_, _, _)
LegDue(cards, at, k) ==
    IF k > Len(Colors) * Len(MaxValues) THEN 0
    ELSE LET card == [color |-> Colors[((k - 1) \div Len(MaxValues)) + 1],
                      max_payoff |-> MaxValues[((k - 1) % Len(MaxValues)) + 1]]
         IN  (IF card \in cards THEN LegCardWorth(card, at) ELSE 0)
                 + LegDue(cards, at, k + 1)

(* A step in which finish_leg has run: a roll after which all dice are     *)
(* back                                                                    *)
LegSettled ==
    /\ calls'.roll_dice = calls.roll_dice + 1
    /\ ret'.exc = None
    /\ die_remaining' = Color

(* The coins of team t change by what its leg bet cards are worth in the   *)
(* places at, apart from the coin of the roll, the coins of its movement   *)
(* cards and of its overall bets.                                          *)
LegPaid(t, at) ==
    /\ teams'[t].coins - teams[t].coins
           = LegDue(teams[t].leg_bet_cards, at, 1)
               + (IF t = active_team THEN 1 ELSE 0)
               + (card_coins'[t] - card_coins[t])
               + (settled'[t] - settled[t])
    /\ teams'[t].leg_bet_cards = {}

(* C13: when finish_leg settles a leg, each team's coins change by the sum *)
(* over the leg bet cards it holds of max_payoff for a card on the first,  *)
(* +1 on the second, -1 on the third to fifth of the leg; afterwards no    *)
(* team holds a leg bet card.                                              *)
C13_LegPayoffs ==
    [][LegSettled =>
           \A after \in {Game'} : \A at \in {Place(after)} :
               \A t \in DOMAIN teams : LegPaid(t, at)]_vars

(* A leg has ended in which at least four leg bets were made, on blue,     *)
(* which is first, and on white, which is second.                          *)
C13_Witness ==
    /\ ret.op = "roll_dice"
    /\ ret.exc = None
    /\ calls.roll_dice = Len(Colors)
    /\ die_remaining = Color
    /\ calls.bet_on_leg >= 4
    /\ \A at \in {Place(Game)} : at["blue"] = 1 /\ at["white"] = 2

(* The same with blue third or later *)
LegEndsBlueLater ==
    /\ ret.op = "roll_dice"
    /\ calls.roll_dice = Len(Colors)
    /\ calls.bet_on_leg >= 4
    /\ \A at \in {Place(Game)} : at["blue"] >= 3

----------------------------------------------------------------------------
(* The successful bets on color in the leg being played, with the teams   *)
(* tms: the cards of that color the teams hold, which they get one per bet *)
(* and keep to the end of the leg                                          *)
BetsInLeg(tms, color) ==
    Cardinality({p \in (DOMAIN tms) \X [color : {color}, max_payoff : 0..5] :
                    p[2] \in tms[p[1]].leg_bet_cards})

(* A bet_on_leg(color) made after k successful bets on color in the leg    *)
(* returns the k+1st of 5, 3, 2, and is rejected when k is three; after    *)
(* are the teams after the call                                            *)
NextLegBet(color, after) ==
    \A k \in {BetsInLeg(teams, color)} :
        IF k < 3
        THEN /\ ret'.exc = None
             /\ ret'.value = <<5, 3, 2>>[k + 1]
             /\ BetsInLeg(after, color) = k + 1
        ELSE /\ ret'.exc = "InvalidMoveException"
             /\ BetsInLeg(after, color) = k

FourthLegBetRejected ==
    /\ ret.op = "bet_on_leg"
    /\ ret.exc = "InvalidMoveException"
    /\ ret.color = "blue"
    /\ BetsInLeg(teams, "blue") = 3
    /\ BetsInLeg(teams, "white") >= 1

----------------------------------------------------------------------------
(* The teams no team has more coins than *)
Richest == {t \in DOMAIN teams : \A u \in DOMAIN teams : teams[u].coins <= teams[t].coins}

(* C15: when finish_game has ended the game, winners is a non-empty set:   *)
(* exactly the teams whose coins, after the leg and the overall bets were  *)
(* settled, are the most any team has; teams tied at the most all win.     *)
C15_Winners ==
    ~playing =>
        /\ winners # <<>>
        /\ winners[1] # {}
        /\ winners[1] = Richest

(* A game has ended with several teams tied at the most coins and others   *)
(* behind them, after overall bets were settled.                           *)
C15_Witness ==
    /\ ~playing
    /\ winners # <<>>
    /\ Cardinality(winners[1]) >= 2
    /\ winners[1] # DOMAIN teams
    /\ \E t \in DOMAIN teams : settled[t] # 0

----------------------------------------------------------------------------
(* The overall bet cards of team t on color in the two lists w and l *)
OverallCardsOf(w, l, t, color) ==
    Cardinality({j \in 1..Len(w) : w[j] = [color |-> color, team |-> t]})
        + Cardinality({j \in 1..Len(l) : l[j] = [color |-> color, team |-> t]})

(* At most one card of a team on a color in the two lists together, and so *)
(* at most 5 cards of a team                                               *)
OneOverallBetEach(tms, w, l) ==
    \A t \in DOMAIN tms :
        /\ \A color \in Color : OverallCardsOf(w, l, t, color) <= 1
        /\ Cardinality({j \in 1..Len(w) : w[j].team = t})
               + Cardinality({j \in 1..Len(l) : l[j].team = t}) <= 5

(* The list q goes on as the list q2 *)
IsPrefix(q, q2) == Len(q) <= Len(q2) /\ SubSeq(q2, 1, Len(q)) = q

(* C16: in every reachable state each team has at most one overall bet     *)
(* card on each color in the winner and the loser list together, at most 5 *)
(* in all; and no call that does not end the game takes a card off either  *)
(* list.                                                                   *)
C16_OverallBetsUnique ==
    [][\A w \in {overall_winner_cards'}, l \in {overall_loser_cards'} :
          /\ OneOverallBetEach(teams, overall_winner_cards, overall_loser_cards)
          /\ OneOverallBetEach(teams, w, l)
          /\ finishes' = finishes =>
                 /\ IsPrefix(overall_winner_cards, w)
                 /\ IsPrefix(overall_loser_cards, l)]_vars

(* One team has bet on all 5 colors, on winners and on losers, and its     *)
(* next bet was rejected.                                                  *)
C16_Witness ==
    /\ ret.op = "make_overall_bet"
    /\ ret.exc = "InvalidMoveException"
    /\ overall_winner_cards # <<>>
    /\ overall_loser_cards # <<>>
    /\ \E t \in DOMAIN teams :
          \A color \in Color :
              OverallCardsOf(overall_winner_cards, overall_loser_cards, t, color) = 1

----------------------------------------------------------------------------
(* A step that is a roll_dice whose move takes the camel beyond the last   *)
(* spot                                                                    *)
FinishingRoll ==
    /\ calls'.roll_dice = calls.roll_dice + 1
    /\ camels[ret'.color].pos + ret'.move > BOARD_SPOTS

(* The roll has left the camel and its chain on the last spot and ended    *)
(* the game, and no team got a coin for a movement card                    *)
FinishedOnLastSpot(after) ==
    /\ ~after.playing
    /\ \A x \in Range(ChainOf(Game, ret'.color)) : after.camels[x].pos = BOARD_SPOTS
    /\ after.card_coins = card_coins

(* C17: when a forward move would take a camel beyond spot 15, the camel   *)
(* and its chain end on spot 15 and the game is finished, and the move     *)
(* triggers no movement card: no card's team gets a coin, and the chain is *)
(* not moved on by +1 or -1.                                               *)
C17_FinishTriggersNoCard ==
    [][FinishingRoll => \A after \in {Game'} : FinishedOnLastSpot(after)]_vars

(* The same of the rolls made while no card lies on the last spot *)
FinishWithoutCardOnLastSpot ==
    [][(FinishingRoll /\ spots[BOARD_SPOTS].movement_card = NoCard) =>
           \A after \in {Game'} : FinishedOnLastSpot(after)]_vars

----------------------------------------------------------------------------
(* The state finish_leg leaves: all dice back, every color's leg bet cards *)
(* 5, 3, 2, no team's placed_movement_card set, no movement card on a spot *)
LegReset(g) ==
    /\ g.die_remaining = Color
    /\ Cardinality(g.die_remaining) = 5
    /\ \A c \in Color : g.leg_bet_cards[c] = <<5, 3, 2>>
    /\ \A t \in DOMAIN g.teams : ~g.teams[t].placed_movement_card
    /\ \A s \in DOMAIN g.spots : g.spots[s].movement_card = NoCard

(* The camels of g stand, and are stacked, as those of moved *)
SameBoard(g, moved) ==
    /\ g.camels = moved.camels
    /\ \A s \in 0..BOARD_SPOTS :
          /\ StackOf(g, s) = StackOf(moved, s)
          /\ StackDown(g, s) = StackDown(moved, s)

----------------------------------------------------------------------------
(* The coins the movement cards have brought the teams 0..t of g *)
RECURSIVE CoinsFromCards(_, _)
CoinsFromCards(g, t) ==
    IF t < 0 THEN 0 ELSE g.card_coins[t] + CoinsFromCards(g, t - 1)

AllCoinsFromCards(g) == CoinsFromCards(g, Cardinality(DOMAIN g.teams) - 1)

(* No two spots side by side both have a movement card *)
NoAdjacentCards ==
    \A s \in 0..(BOARD_SPOTS - 1) :
        spots[s].movement_card = NoCard \/ spots[s + 1].movement_card = NoCard

(* C19: from every reachable state, move_camel of any color by 1, 2 or 3   *)
(* returns, and the moves it makes trigger at most one movement card; no   *)
(* two spots side by side both have a movement card.                       *)
C19_CascadeEnds ==
    /\ NoAdjacentCards
    /\ \A g \in {Game} : \A c \in Color, n \in 1..3 :
          \A moved \in {move_camel(g, c, n, 0)} :
              /\ moved.exc = None
              /\ AllCoinsFromCards(moved) - AllCoinsFromCards(g) \in {0, 1}

(* Two cards lie on the board with a spot between them, and a roll has    *)
(* triggered one of them.                                                  *)
C19_Witness ==
    /\ spots[3].movement_card # NoCard
    /\ spots[5].movement_card # NoCard
    /\ calls.place_movement_card = 2
    /\ AllCoinsFromCards(Game) >= 1
    /\ ret.op = "roll_dice"
    /\ ret.exc = None
    /\ ret.pos + ret.move \in {3, 5}

----------------------------------------------------------------------------
(* C20: from every game in progress with dice left the enumeration of the  *)
(* outcomes ends: each level of generate_outcomes has one die fewer than   *)
(* the level above, so that the nesting is never deeper than the dice at   *)
(* the start, at most 5, also where a branch takes a camel beyond spot 15; *)
(* the call returns, and not with a RecursionError.                        *)
C20_EnumerationEnds ==
    ret.op = "calculate_best_leg_bet" => ret.exc # "RecursionError"

(* The same of the calls made while no camel can pass the last spot with   *)
(* the dice left                                                           *)
EnumerationEndsShortOfFinish ==
    (/\ ret.op = "calculate_best_leg_bet"
     /\ \A c \in Color : camels[c].pos + 3 * Cardinality(die_remaining) <= BOARD_SPOTS)
        => /\ ret.exc = None
           /\ \A i \in 1..Len(ret.outcomes) : ret.outcomes[i].die_remaining = {}

----------------------------------------------------------------------------
(* A roll_dice step of a game in progress: the color rolled was among the  *)
(* dice remaining; it is taken out of them, unless it was the last of the  *)
(* leg or the roll ended the game, and then all dice are back.  The leg is *)
(* settled with the game going on exactly when the last die was rolled.    *)
RollTakesDie ==
    /\ ret'.color \in die_remaining
    /\ die_remaining' =
           IF die_remaining = {ret'.color} \/ ~playing' THEN Color
           ELSE die_remaining \ {ret'.color}
    /\ (LegSettled /\ playing') <=> (die_remaining = {ret'.color} /\ playing')
    /\ (die_remaining = {ret'.color}) =>
           Cardinality(Color \ die_remaining) = Len(Colors) - 1

(* C21: while the game is in progress, roll_dice rolls a color that is in  *)
(* die_remaining and takes it out, so that each color is rolled at most    *)
(* once between two leg settlements; no other call changes die_remaining;  *)
(* a leg is settled without the game ending exactly when the roll of the   *)
(* fifth color of the leg is done; die_remaining is never empty between    *)
(* calls.                                                                  *)
C21_DicePerLeg ==
    [][playing =>
           /\ die_remaining # {}
           /\ die_remaining' # {}
           /\ calls'.roll_dice = calls.roll_dice + 1 => RollTakesDie
           /\ calls'.roll_dice = calls.roll_dice => die_remaining' = die_remaining]_vars

(* The fifth roll of a leg has settled it, and the game goes on *)
C21_Witness ==
    /\ playing
    /\ ret.op = "roll_dice"
    /\ ret.exc = None
    /\ calls.roll_dice = Len(Colors)
    /\ die_remaining = Color
    /\ calls.bet_on_leg + calls.place_movement_card + calls.make_overall_bet = 1

----------------------------------------------------------------------------
(* The team after team t in turn order, the first after the last *)
NextInTurn(t) == IF t = Cardinality(DOMAIN teams) - 1 THEN 0 ELSE t + 1

(* The calls that end a turn, made so far *)
TurnsTaken(c) == c.roll_dice + c.bet_on_leg + c.place_movement_card

(* C22: each roll_dice, bet_on_leg and place_movement_card that succeeds   *)
(* makes the next team in turn order the active team, the first after the  *)
(* last, for every number of teams from 2 to 8 and also when the call ends *)
(* a leg; so the k-th of these calls of a run is made by team (k - 1)      *)
(* modulo the number of teams.                                             *)
C22_RoundRobin ==
    [][TurnsTaken(calls') = TurnsTaken(calls) + 1 =>
           /\ active_team' = NextInTurn(active_team)
           /\ active_team = TurnsTaken(calls) % Cardinality(DOMAIN teams)]_vars

(* In a game of 8 teams the turn has come round to the first team with    *)
(* the roll that ended the first leg on the way.                           *)
C22_Witness ==
    /\ Cardinality(DOMAIN teams) = TeamNames
    /\ TurnsTaken(calls) = TeamNames
    /\ active_team = 0
    /\ calls.roll_dice > Len(Colors)
    /\ calls.bet_on_leg = 1
    /\ calls.place_movement_card = 1

----------------------------------------------------------------------------
(* The spots of sp that have a movement card of team t *)
CardsOf(sp, t) ==
    {s \in DOMAIN sp : sp[s].movement_card # NoCard /\ sp[s].movement_card[1].team = t}

(* Each team has at most one card on the board, and its flag is set        *)
(* exactly when it has one                                                 *)
OneCardEach(tms, sp) ==
    \A t \in DOMAIN tms :
        /\ Cardinality(CardsOf(sp, t)) <= 1
        /\ tms[t].placed_movement_card <=> CardsOf(sp, t) # {}

(* No card and no flag is left *)
CardsCleared(tms, sp) ==
    /\ \A s \in DOMAIN sp : sp[s].movement_card = NoCard
    /\ \A t \in DOMAIN tms : ~tms[t].placed_movement_card

(* Every card and every flag stays *)
CardsKept(tms, sp) ==
    /\ \A s \in DOMAIN spots :
          spots[s].movement_card # NoCard => sp[s].movement_card = spots[s].movement_card
    /\ \A t \in DOMAIN teams :
          teams[t].placed_movement_card => tms[t].placed_movement_card

(* C23: in every reachable state each team has at most one movement card   *)
(* on the board, and its placed_movement_card is set exactly when it has   *)
(* one; the end of a leg clears all cards and flags together, and no other *)
(* step takes a card or a flag away.                                       *)
C23_CardFlags ==
    [][\A tms \in {teams'}, sp \in {spots'} :
          /\ OneCardEach(teams, spots)
          /\ OneCardEach(tms, sp)
          /\ IF LegSettled THEN CardsCleared(tms, sp) ELSE CardsKept(tms, sp)]_vars

(* A leg has ended in which both teams had placed a card, and no card and *)
(* no flag is left.                                                        *)
C23_Witness ==
    /\ ret.op = "roll_dice"
    /\ ret.exc = None
    /\ calls.place_movement_card = 2
    /\ calls.roll_dice = Len(Colors)
    /\ CardsCleared(teams, spots)

(* Both teams have a card on the board *)
BothTeamsHaveCard ==
    \A t \in DOMAIN teams :
        Cardinality(CardsOf(spots, t)) = 1 /\ teams[t].placed_movement_card

----------------------------------------------------------------------------
(* C24: of the calls made while the game is in progress none runs          *)
(* finish_game twice: the overall bets are settled at most once in a game, *)
(* and no overall bet card changes its team's coins more than once.        *)
C24_FinishGameOnce == finishes <= 1

(* The same of the games in which no card was placed on the last spot *)
FinishGameOnceWithoutCard ==
    (\A s \in limits.card_spots : s # BOARD_SPOTS) => finishes <= 1

----------------------------------------------------------------------------
(* The spots whose stack, read from its head, has camel c *)
SpotsOf(g, c) == {s \in 0..BOARD_SPOTS : c \in Range(StackOf(g, s))}

(* C25: in every reachable state each camel is in the stack of exactly one *)
(* spot, and its pos is the index of that spot, also after the moves of    *)
(* movement cards and after the move that ends the game.                   *)
C25_PositionIsSpot ==
    \A g \in {Game} : \A c \in Color :
        /\ SpotsOf(g, c) = {g.camels[c].pos}
        /\ c \in Range(StackDown(g, g.camels[c].pos))

(* A roll has moved a camel that carries another onto a card, which moved  *)
(* them on.                                                                *)
C25_Witness ==
    /\ ret.op = "roll_dice"
    /\ ret.exc = None
    /\ AllCoinsFromCards(Game) >= 1
    /\ camels[ret.color].pos # ret.pos + ret.move
    /\ nodes[ret.color].next # None
    /\ camels[nodes[ret.color].next].pos = camels[ret.color].pos

(* The move that ends the game has left the camel on the last spot, on    *)
(* top of another                                                          *)
EndedOnLastSpot ==
    /\ ~playing
    /\ ret.op = "roll_dice"
    /\ ret.pos + ret.move > BOARD_SPOTS
    /\ camels[ret.color].pos = BOARD_SPOTS
    /\ nodes[ret.color].prev # None

----------------------------------------------------------------------------
(* C26: in every reachable state no spot has both a movement card and      *)
(* camels: a card is placed on an empty spot only, and camels that land on *)
(* a card are moved off it before the call returns.                        *)
C26_NoCamelOnCard ==
    \A s \in 0..BOARD_SPOTS :
        spots[s].movement_card = NoCard
            \/ (spots[s].head = None /\ spots[s].tail = None /\ StackOf(Game, s) = <<>>)

(* A roll has landed on a card, which is still on the board, and the      *)
(* camel has been moved off it.                                            *)
C26_Witness ==
    /\ ret.op = "roll_dice"
    /\ ret.exc = None
    /\ ret.pos + ret.move <= BOARD_SPOTS
    /\ spots[ret.pos + ret.move].movement_card # NoCard
    /\ camels[ret.color].pos # ret.pos + ret.move

(* A placement on a spot with camels was rejected *)
PlacementOnCamelsRejected ==
    /\ ret.op = "place_movement_card"
    /\ ret.exc = "InvalidMoveException"
    /\ ret.position \in 1..BOARD_SPOTS
    /\ spots[ret.position].head # None

----------------------------------------------------------------------------
(* The teams that hold the leg bet card of color with max payoff v *)
HoldersOf(color, v) ==
    {t \in DOMAIN teams : [color |-> color, max_payoff |-> v] \in teams[t].leg_bet_cards}

(* The places of <<5, 3, 2>> from which on it is the list q *)
SuffixAt(q) == {k \in 1..4 : q = SubSeq(<<5, 3, 2>>, k, 3)}

CardHeldInSecondLeg ==
    /\ calls.roll_dice = Len(Colors)
    /\ leg_bet_cards["blue"] = <<3, 2>>
    /\ calls.bet_on_leg = 5

====
